---- MODULE Spec2Model ----
(***************************************************************************)
(* A model of discord_server_watcher.py: the poll cycle of WatcherBot      *)
(* (fetch, filter, key resolution, diff, persistence, notification), the   *)
(* state store (load_state / save_state) and the slash commands that       *)
(* share the bot's state with the poller.                                  *)
(*                                                                         *)
(* The bot runs on one asyncio event loop: code between two awaits is      *)
(* atomic with respect to the command handlers.  The poller's position is  *)
(* pc; the handlers are enabled only where the poller is suspended.        *)
(*                                                                         *)
(* Specifications:                                                         *)
(*   Spec           start-up, the poller, /watch, /usehere, /clearchannel  *)
(*   SpecFair       Spec with the loop's steps weakly fair                 *)
(*   SpecRestart    Spec with the process killed in save_state, restarted  *)
(*   SpecInterval   Spec with /setinterval and a configured poll_seconds   *)
(*   SpecStatus     /status while the poller's fetches fail                *)
(*   SpecFilter     lines 186-188 applied to a list under two filters      *)
(*   SpecRoundTrip  save_state followed by load_state                      *)
(***************************************************************************)
EXTENDS Integers, Sequences, FiniteSets, TLC

\* ------------------------------------------------------------------ bounds
\* Longest list the registry returns in one fetch.
MaxFetch == 2

\* ------------------------------------------------------------- Python values
\* The strings of the model in code-point order, the order of Python's str.__lt__.
CodePointOrder == <<"", "1.1.1.1", "A", "B">>

StrRank(s) == CHOOSE i \in 1..Len(CodePointOrder) : CodePointOrder[i] = s

StrLess(a, b) == StrRank(a) < StrRank(b)

\* A raw field of a registry record: <<tag, value>>.  "missing": the dict has
\* no such entry; "str"/"int": a value of that type; "numstr": a string of
\* digits (value: the number it spells); "badstr": a string that spells no
\* integer.  Names and addresses are strings where they are present.
NameA    == <<"str", "A">>
NameB    == <<"str", "B">>
NoName   == <<"missing", "">>
Ip1      == <<"str", "1.1.1.1">>
NoIp     == <<"missing", "">>
NoPort   == <<"missing", 0>>
BadPort  == <<"badstr", 0>>

IntPort(n) == <<"int", n>>
StrPort(n) == <<"numstr", n>>

\* The raw records the registry may list.
Records ==
    { [name |-> NameA,    public_ip |-> Ip1,  port |-> IntPort(200)],
      [name |-> NameB,    public_ip |-> Ip1,  port |-> StrPort(100)],
      [name |-> NoName,   public_ip |-> NoIp, port |-> NoPort],
      [name |-> NameA,    public_ip |-> Ip1,  port |-> BadPort] }

\* The lists fetch_servers may return.
FetchLists == UNION { [1..n -> Records] : n \in 0..MaxFetch }

\* Names a /watch command may carry, and the channels /usehere may run in.
Names    == {"A", "B"}
Channels == {1}

\* dict.get(key, default)
Get(field, default) == IF field[1] = "missing" THEN default ELSE field[2]

\* int(x): raises ValueError on a string that spells no integer.
IntRaises(field) == field[1] = "badstr"

ToInt(field) == field[2]

\* ------------------------------------------------------------ _key (66-67)
KeyRaises(s) == s.port[1] # "missing" /\ IntRaises(s.port)

_key(s) == <<Get(s.name, ""), Get(s.public_ip, ""),
             IF s.port[1] = "missing" THEN 0 ELSE ToInt(s.port)>>

\* --------------------------------------------------- tuple order and sorted()
KeyLess(a, b) ==
    IF a[1] # b[1] THEN StrLess(a[1], b[1])
    ELSE IF a[2] # b[2] THEN StrLess(a[2], b[2])
    ELSE a[3] < b[3]

Smallest(S) == CHOOSE a \in S : \A b \in S \ {a} : KeyLess(a, b)

Largest(S) == CHOOSE a \in S : \A b \in S \ {a} : KeyLess(b, a)

RECURSIVE sortedDescending(_)
sortedDescending(S) ==
    IF S = {} THEN <<>>
    ELSE <<Largest(S)>> \o sortedDescending(S \ {Largest(S)})

\* sorted(S): ascending.
RECURSIVE sorted(_)
sorted(S) ==
    IF S = {} THEN <<>>
    ELSE <<Smallest(S)>> \o sorted(S \ {Smallest(S)})

Range(f) == { f[i] : i \in DOMAIN f }

\* ------------------------------------------------- state store (36-48)
\* The state file: absent, unparseable, or the JSON list save_state dumped.
AbsentFile  == [kind |-> "absent",  data |-> <<>>]
CorruptFile == [kind |-> "corrupt", data |-> <<>>]

JsonFile(seq) == [kind |-> "json", data |-> seq]

load_nothing(file) == {}

load_head(file) ==
    IF file.kind = "json" /\ file.data # <<>> THEN {file.data[1]} ELSE {}

load_state(file) == IF file.kind = "json" THEN Range(file.data) ELSE {}

save_nothing(keys, file, works) == {file}

\* json.dump([list(k) for k in sorted(keys)], open(STATE_FILE, "w")):
\* open(.., "w") may fail, and leaves the file as it was; once it has
\* truncated the file the dump may fail part-way.  Every exception is
\* swallowed.  The files save_state may leave behind:
save_state(keys, file, works) ==
    IF works THEN {JsonFile(sorted(keys))} ELSE {file, CorruptFile}

\* ------------------------------------------------------------------- state
VARIABLES
    pc,           \* where the poller task stands
    ready,        \* the session's readiness: "no", "dispatched", "handled"
    _session,     \* self._session is set
    _channel,     \* self._channel: 0 is None
    cfg,          \* self.cfg: channel_id, watch_names, poll_seconds
    _last_seen,   \* self._last_seen
    watch_names,  \* self.watch_names
    state_file,   \* the content of STATE_FILE
    diskOk,       \* whether writes to the state file work
    current,      \* poller locals
    ups,
    downs,
    phase,        \* which loop of the notification the poller is in
    todo,         \* the keys the running loop has yet to send, the head in flight
    target,       \* the channel the send in flight was issued on
    cyc,          \* what the running (or last) cycle did, for the properties
    poll_seconds, \* self.poll_seconds
    loop_seconds, \* the interval of the poller loop
    status,       \* the /status command in flight, or what the last one answered
    probe         \* the arguments and the result of a function applied on its own

vars == <<pc, ready, _session, _channel, cfg, _last_seen, watch_names,
          state_file, diskOk, current, ups, downs, phase, todo,
          target, cyc, poll_seconds, loop_seconds, status, probe>>

\* What the poller, /watch, /usehere and /clearchannel leave alone.
others == <<poll_seconds, loop_seconds, status, probe>>

locals == <<current, ups, downs, phase, todo, target>>

bot == <<_session, _channel, cfg, _last_seen, watch_names>>

\* What the running cycle has done, for the properties; the loop clears it
\* when the cycle is over.  The fields that outlive the cycle:
\*   fetchedSet, lastCurrent, polled: the last cycle that computed a diff;
\*   unsaved: the last save_state failed;
\*   afterFailure: until the fetch of the next cycle is over.
NewCycle ==
    [ fetchedSet |-> {},      \* the records of the last list fetched
      lastCurrent |-> {},     \* the current key set it built
      polled     |-> FALSE,   \* some cycle has computed a diff
      unsaved    |-> FALSE,
      previous   |-> {},      \* _last_seen when the diff was computed
      diffed     |-> FALSE,   \* lines 186-190 ran
      disk       |-> TRUE,    \* writes worked when the diff was computed
      wrote      |-> "no",    \* save_state: "no", "ok", "failed"
      replaced   |-> FALSE,   \* line 193 ran
      emitted    |-> <<>>,    \* the events sent or logged, in order
      sameFetch  |-> FALSE,   \* the fetch returned the records of the last one
      sameCurrent |-> FALSE,  \* current is the key set the last diff built
      result     |-> "none",  \* "running", "fetch_error", "completed", "raised"
      exc        |-> "",      \* the exception that left the body
      restarted  |-> FALSE,   \* the first cycle since the process was restarted
      before     |-> {},      \* _last_seen of the process that was restarted
      clean      |-> FALSE,   \* and its last save_state, if any, had not failed
      interval   |-> 0,       \* the loop's interval when the cycle started
      afterFailure |-> FALSE ] \* the cycle before this one aborted on its fetch

\* The same record for the next cycle.
Cleared(c) ==
    [NewCycle EXCEPT !.fetchedSet = c.fetchedSet,
                     !.lastCurrent = c.lastCurrent,
                     !.polled = c.polled, !.unsaved = c.unsaved,
                     !.afterFailure = (c.result = "fetch_error")]

\* The state files a run may start with: none, an unreadable one, or what an
\* earlier run saved under the filter of the configuration.
InitFiles == { AbsentFile, CorruptFile,
               JsonFile(<< <<"A", "1.1.1.1", 200>> >>) }

\* Nothing asked of /status yet.  at: "none", "fetching", "answered";
\* failed: the command's fetch raised; text: the head of the answer; shown:
\* the servers it lists; stale: it says that they may be out of date.
NoStatus ==
    [at |-> "none", failed |-> FALSE, text |-> "", shown |-> {},
     stale |-> FALSE]

\* No function applied on its own.

NoProbe  == [op |-> "none"]

\* load_cfg's default for poll_seconds (31), also the default of line 78.
ConfigDefault == 15

\* @tasks.loop(seconds=15)
LoopDefault == 15

\* 226-240, 71-79: the bot as constructed from a configuration whose
\* poll_seconds is `seconds`.
Constructed(seconds) ==
    /\ pc = "constructed"
    /\ ready = "no"
    /\ _session = FALSE
    /\ _channel = 0
    /\ \E ch \in {0} \cup Channels, w \in SUBSET Names :
          /\ cfg = [channel_id |-> ch, watch_names |-> w,
                    poll_seconds |-> seconds]
          /\ watch_names = w
    /\ state_file \in { f \in InitFiles :
                          watch_names = {}
                          \/ \A k \in load_state(f) : k[1] \in watch_names }
    /\ _last_seen = load_state(state_file)
    /\ diskOk \in BOOLEAN
    /\ current = {}
    /\ ups = {}
    /\ downs = {}
    /\ phase = "none"
    /\ todo = <<>>
    /\ target = 0
    /\ cyc = NewCycle
    /\ poll_seconds = seconds
    /\ loop_seconds = LoopDefault
    /\ status = NoStatus

Init == Constructed(ConfigDefault) /\ probe = NoProbe

\* ------------------------------------------------ start-up (81, 158-175, 206-208)
\* The poller is suspended at an await (or not running): a handler may run.
\* on_ready is dispatched when READY arrives and runs before any later
\* network event is handled, so the commands and the fetch's return wait
\* for it.
Suspended == pc \in {"before_loop", "idle", "fetching", "sending", "dead"}

\* setup_hook: registers the commands, opens the session, sets the loop's
\* interval (162) and starts the loop; the loop first awaits before_poller.
setup_hook ==
    /\ pc = "constructed"
    /\ pc' = "before_loop"
    /\ _session' = TRUE
    /\ loop_seconds' = poll_seconds
    /\ UNCHANGED <<ready, _channel, cfg, _last_seen, watch_names, state_file,
                   diskOk, locals, cyc, poll_seconds, status, probe>>

\* The gateway reports READY: wait_until_ready is released and on_ready is
\* dispatched.
GatewayReady ==
    /\ pc # "constructed"
    /\ ready = "no"
    /\ ready' = "dispatched"
    /\ UNCHANGED <<others, pc, bot, state_file, diskOk, locals, cyc>>

\* on_ready: restores the saved channel when it is still a text channel.
on_ready ==
    /\ Suspended
    /\ ready = "dispatched"
    /\ ready' = "handled"
    /\ \E found \in BOOLEAN :
          _channel' = IF cfg.channel_id # 0 /\ found THEN cfg.channel_id
                      ELSE _channel
    /\ UNCHANGED <<others, pc, _session, cfg, _last_seen, watch_names, state_file,
                   diskOk, locals, cyc>>

before_poller_without_wait ==
    /\ pc = "before_loop"
    /\ pc' = "idle"
    /\ UNCHANGED <<others, ready, bot, state_file, diskOk, locals, cyc>>

\* before_poller: await self.wait_until_ready()
before_poller ==
    /\ pc = "before_loop"
    /\ ready # "no"
    /\ pc' = "idle"
    /\ UNCHANGED <<others, ready, bot, state_file, diskOk, locals, cyc>>

\* ------------------------------------------------------- poller (177-204)
TickWhileSending ==
    /\ pc \in {"idle", "sending"}
    /\ pc' = IF _session THEN "fetching" ELSE "returned"
    /\ cyc' = [cyc EXCEPT !.result = IF _session THEN "running" ELSE "completed",
                          !.interval = loop_seconds]
    /\ UNCHANGED <<others, ready, bot, state_file, diskOk, locals>>

\* The loop calls poller when its sleep is over, and only then: it awaits
\* the call before it sleeps again.  Line 179 returns when there is no
\* session.
Tick ==
    /\ pc = "idle"
    /\ pc' = IF _session THEN "fetching" ELSE "returned"
    /\ cyc' = [cyc EXCEPT !.result = IF _session THEN "running" ELSE "completed",
                          !.interval = loop_seconds]
    /\ UNCHANGED <<others, ready, bot, state_file, diskOk, locals>>

FetchFailForgets ==
    /\ pc = "fetching"
    /\ ready = "handled"
    /\ pc' = "returned"
    /\ _last_seen' = {}
    /\ cyc' = [cyc EXCEPT !.result = "fetch_error", !.afterFailure = FALSE]
    /\ UNCHANGED <<others, ready, _session, _channel, cfg, watch_names, state_file,
                   diskOk, locals>>

\* 181-185: fetch_servers raised (timeout, transport error, bad status).
FetchFail ==
    /\ pc = "fetching"
    /\ ready = "handled"
    /\ pc' = "returned"
    /\ cyc' = [cyc EXCEPT !.result = "fetch_error", !.afterFailure = FALSE]
    /\ UNCHANGED <<others, ready, bot, state_file, diskOk, locals>>

RejectsListed(s, filter) ==
    filter = {} \/ ~(s.name[1] # "missing" /\ s.name[2] \in filter)

\* 186-187: the filter.  s.get("name") is None for a record without a
\* name, and None is in no filter.
Accepts(s, filter) ==
    filter = {} \/ (s.name[1] # "missing" /\ s.name[2] \in filter)

Filtered(list, filter) == SelectSeq(list, LAMBDA s : Accepts(s, filter))

\* 188: the current key set.
CurrentKeys(list) == { _key(list[i]) : i \in DOMAIN list }

AppearedAll(cur, prev) == cur

\* 189-190
Appeared(cur, prev) == cur \ prev

Disappeared(cur, prev) == prev \ cur

\* The exceptions tasks.loop retries after a back-off (transport errors);
\* any other one stops the loop.
Retried == {"ClientError"}

\* An exception leaves the body.
Raise ==
    /\ pc' = "raised"
    /\ phase' = "none"
    /\ todo' = <<>>
    /\ target' = 0

NotifyFirst == <<"notify", "save", "replace">>

\* 191-204: what the body does after the diff, in this order; the first two
\* only when the delta is not empty.
BodyOrder == <<"save", "replace", "notify">>

StepsAlways(delta) == BodyOrder

StepsFor(delta) == IF delta # {} THEN BodyOrder ELSE <<"notify">>

FirstStep(delta) == StepsFor(delta)[1]

\* The step after `step`; the body returns after the last one.
After(step, delta) ==
    LET s == StepsFor(delta)
        i == CHOOSE j \in 1..Len(s) : s[j] = step
    IN  IF i < Len(s) THEN s[i + 1] ELSE "returned"

ResultAt(p) == IF p = "returned" THEN "completed" ELSE "running"

\* 182-190: fetch_servers returned `list`; filter, keys, diff.  There is
\* no await between the return of the fetch and line 195.
FetchOk ==
    /\ pc = "fetching"
    /\ ready = "handled"
    /\ \E list \in FetchLists :
          LET kept == Filtered(list, watch_names)
              cur  == CurrentKeys(kept)
          IN  IF \E i \in DOMAIN kept : KeyRaises(kept[i])
              THEN /\ Raise
                   /\ cyc' = [cyc EXCEPT !.result = "raised",
                                         !.exc = "ValueError",
                                         !.fetchedSet = {},
                                         !.afterFailure = FALSE]
                   /\ UNCHANGED <<current, ups, downs>>
              ELSE /\ current' = cur
                   /\ ups' = Appeared(cur, _last_seen)
                   /\ downs' = Disappeared(cur, _last_seen)
                   /\ pc' = FirstStep(Appeared(cur, _last_seen)
                                      \cup Disappeared(cur, _last_seen))
                   /\ cyc' = [cyc EXCEPT
                                !.sameFetch = cyc.polled
                                              /\ Range(list) = cyc.fetchedSet,
                                !.fetchedSet = Range(list),
                                !.sameCurrent = cyc.polled
                                                /\ cur = cyc.lastCurrent,
                                !.lastCurrent = cur,
                                !.polled = TRUE,
                                !.previous = _last_seen,
                                !.disk = diskOk,
                                !.diffed = TRUE,
                                !.afterFailure = FALSE]
                   /\ UNCHANGED <<phase, todo, target>>
    /\ UNCHANGED <<others, ready, bot, state_file, diskOk>>

\* 191-192: save_state(current)
Persist ==
    /\ pc = "save"
    /\ \E f \in save_state(current, state_file, diskOk) : state_file' = f
    /\ pc' = After("save", ups \cup downs)
    /\ cyc' = [cyc EXCEPT
                 !.wrote = IF diskOk THEN "ok" ELSE "failed",
                 !.unsaved = ~diskOk,
                 !.result = ResultAt(pc')]
    /\ UNCHANGED <<others, ready, bot, diskOk, locals>>

\* 193: self._last_seen = current
Replace ==
    /\ pc = "replace"
    /\ _last_seen' = current
    /\ pc' = After("replace", ups \cup downs)
    /\ cyc' = [cyc EXCEPT !.replaced = TRUE, !.result = ResultAt(pc')]
    /\ UNCHANGED <<others, ready, _session, _channel, cfg, watch_names, state_file,
                   diskOk, locals>>

Event(kind, key, to) == [kind |-> kind, key |-> key, to |-> to]

Events(kind, keys, to) == [i \in 1..Len(keys) |-> Event(kind, keys[i], to)]

\* Where the notification stands: the poller's position, the loop, the keys
\* left, the channel of the send in flight, the exception raised ("" for
\* none).
Stand(p, ph, td, tg, exc) ==
    [pc |-> p, phase |-> ph, todo |-> td, target |-> tg, exc |-> exc]

Raised(exc) == Stand("raised", "none", <<>>, 0, exc)

Done == Stand(After("notify", ups \cup downs), "none", <<>>, 0, "")

\* 197, 199: self._channel.send(..): self._channel is read again for every
\* event, and None has no send.
Send(keys, ph) ==
    IF _channel = 0 THEN Raised("AttributeError")
    ELSE Stand("sending", ph, keys, _channel, "")

\* 198: the second loop sorts downs when the first loop is over.
StartDowns ==
    IF downs = {} THEN Done
    ELSE Send(sorted(downs), "DOWN")

\* The loops at 196-199 with `rest` left to send in loop `ph`.
Advance(rest, ph) ==
    IF rest # <<>> THEN Send(rest, ph)
    ELSE IF ph = "UP" THEN StartDowns
    ELSE Done

\* 196: the first loop sorts ups.
StartUps == Advance(sorted(ups), "UP")

\* 201-204: the log lines, all within one step.
Logged == Events("UP", sorted(ups), 0) \o Events("DOWN", sorted(downs), 0)

Take(st) ==
    /\ pc' = st.pc
    /\ phase' = st.phase
    /\ todo' = st.todo
    /\ target' = st.target

Outcome(st) == IF st.exc # "" THEN "raised" ELSE ResultAt(st.pc)

\* 195-204 up to the first await.
Notify ==
    /\ pc = "notify"
    /\ IF _channel # 0
       THEN /\ Take(StartUps)
            /\ cyc' = [cyc EXCEPT !.result = Outcome(StartUps),
                                  !.exc = StartUps.exc]
       ELSE /\ Take(Done)
            /\ cyc' = [cyc EXCEPT !.emitted = cyc.emitted \o Logged,
                                  !.result = Outcome(Done)]
    /\ UNCHANGED <<others, ready, bot, state_file, diskOk, current, ups, downs>>

\* The send in flight returns: the loop goes on.
SendOk ==
    /\ pc = "sending"
    /\ Take(Advance(Tail(todo), phase))
    /\ cyc' = [cyc EXCEPT
                 !.emitted = Append(cyc.emitted, Event(phase, Head(todo), target)),
                 !.result = Outcome(Advance(Tail(todo), phase)),
                 !.exc = Advance(Tail(todo), phase).exc]
    /\ UNCHANGED <<others, ready, bot, state_file, diskOk, current, ups, downs>>

\* The send in flight raises: discord.HTTPException (the API refused) or a
\* transport error.
SendFail ==
    /\ pc = "sending"
    /\ Raise
    /\ \E exc \in {"HTTPException", "ClientError"} :
          cyc' = [cyc EXCEPT !.result = "raised", !.exc = exc]
    /\ UNCHANGED <<others, ready, bot, state_file, diskOk, current, ups, downs>>

LoopEndStopsOnFailure ==
    /\ pc \in {"returned", "raised"}
    /\ pc' = IF pc = "raised" \/ cyc.result = "fetch_error" THEN "dead"
             ELSE "idle"
    /\ current' = {}
    /\ ups' = {}
    /\ downs' = {}
    /\ cyc' = Cleared(cyc)
    /\ UNCHANGED <<others, ready, bot, state_file, diskOk, phase, todo, target>>

\* The body is over.  tasks.loop sleeps until the next iteration after a
\* return, calls poller again after a back-off on an exception it retries,
\* and ends on any other exception.  The locals of the call are gone.
LoopEnd ==
    /\ pc \in {"returned", "raised"}
    /\ pc' = IF pc = "raised" /\ cyc.exc \notin Retried THEN "dead" ELSE "idle"
    /\ current' = {}
    /\ ups' = {}
    /\ downs' = {}
    /\ cyc' = Cleared(cyc)
    /\ UNCHANGED <<others, ready, bot, state_file, diskOk, phase, todo, target>>

\* ------------------------------------------------------ commands (106-149)
\* /watch <action> <name>
watch_cmd ==
    /\ Suspended
    /\ ready = "handled"
    /\ \E action \in {"add", "remove", "list"}, name \in Names \cup {""} :
          watch_names' =
              IF action = "list" \/ name = "" THEN watch_names
              ELSE IF action = "add" THEN watch_names \cup {name}
              ELSE watch_names \ {name}
    /\ cfg' = [cfg EXCEPT !.watch_names = watch_names']
    /\ UNCHANGED <<others, pc, ready, _session, _channel, _last_seen, state_file,
                   diskOk, locals, cyc>>

\* /usehere in channel ch, which may be no text channel.
usehere_cmd ==
    /\ Suspended
    /\ ready = "handled"
    /\ \E ch \in Channels, isText \in BOOLEAN :
          /\ _channel' = IF isText THEN ch ELSE _channel
          /\ cfg' = IF isText THEN [cfg EXCEPT !.channel_id = ch] ELSE cfg
    /\ UNCHANGED <<others, pc, ready, _session, _last_seen, watch_names, state_file,
                   diskOk, locals, cyc>>

\* /clearchannel
clearchannel_cmd ==
    /\ Suspended
    /\ ready = "handled"
    /\ _channel' = 0
    /\ cfg' = [cfg EXCEPT !.channel_id = 0]
    /\ UNCHANGED <<others, pc, ready, _session, _last_seen, watch_names, state_file,
                   diskOk, locals, cyc>>

\* ------------------------------------------------------------ environment
\* Writes to the state file start or stop working, between two steps of the
\* event loop.
DiskChange ==
    /\ Suspended
    /\ diskOk' = ~diskOk
    /\ UNCHANGED <<others, pc, ready, bot, state_file, locals, cyc>>

Next ==
    \/ setup_hook
    \/ GatewayReady
    \/ on_ready
    \/ before_poller
    \/ Tick
    \/ FetchFail
    \/ FetchOk
    \/ Persist
    \/ Replace
    \/ Notify
    \/ SendOk
    \/ SendFail
    \/ LoopEnd
    \/ watch_cmd
    \/ usehere_cmd
    \/ clearchannel_cmd
    \/ DiskChange

Spec == Init /\ [][Next]_vars

\* The loop is an asyncio task: when the body is over the loop takes over,
\* and when its sleep is over it calls the body.
SpecFair == Spec /\ WF_vars(Tick) /\ WF_vars(LoopEnd)

\* ------------------------------------------------ the process dies and restarts
\* An empty state file: what open(STATE_FILE, "w") leaves before the dump.
EmptyFile == [kind |-> "empty", data |-> <<>>]

\* 44-48 cut short.  The process may die before open(.., "w"), after it has
\* truncated the file, while the dump is flushed (a prefix of a JSON list is
\* no JSON document), or when the dump is on disk.
killed_in_save_state(keys, file) ==
    {file, EmptyFile, JsonFile(sorted(keys))}
        \cup (IF keys # {} THEN {CorruptFile} ELSE {})

\* The process is killed inside save_state(current), line 192: what it held
\* in memory is gone, the configuration and the state file stay.
Kill ==
    /\ pc = "save"
    /\ \E f \in killed_in_save_state(current, state_file) : state_file' = f
    /\ pc' = "killed"
    /\ ready' = "no"
    /\ _session' = FALSE
    /\ _channel' = 0
    /\ _last_seen' = {}
    /\ watch_names' = {}
    /\ current' = {}
    /\ ups' = {}
    /\ downs' = {}
    /\ cyc' = [NewCycle EXCEPT !.result = "killed"]
    /\ UNCHANGED <<others, cfg, diskOk, phase, todo, target>>

\* The process is started again (226-240, 71-79): between two cycles, after
\* the loop has stopped, or after it was killed.  The configuration every
\* command saved is read back, the snapshot is loaded from the state file,
\* everything else starts as constructed.
Restart ==
    /\ pc \in {"idle", "dead", "killed"}
    /\ pc' = "constructed"
    /\ ready' = "no"
    /\ _session' = FALSE
    /\ _channel' = 0
    /\ cfg' = cfg
    /\ watch_names' = cfg.watch_names
    /\ _last_seen' = load_state(state_file)
    /\ current' = {}
    /\ ups' = {}
    /\ downs' = {}
    /\ phase' = "none"
    /\ todo' = <<>>
    /\ target' = 0
    /\ cyc' = [NewCycle EXCEPT !.restarted = pc # "killed",
                               !.before = _last_seen,
                               !.clean = pc # "killed" /\ ~cyc.unsaved]
    /\ poll_seconds' = cfg.poll_seconds
    /\ loop_seconds' = LoopDefault
    /\ status' = NoStatus
    /\ UNCHANGED <<state_file, diskOk, probe>>

NextRestart ==
    \/ Next
    \/ Kill
    \/ Restart

SpecRestart == Init /\ [][NextRestart]_vars

\* -------------------------------------------------- /setinterval (94-104)
\* The least interval /setinterval accepts (97).
MinSeconds == 5

\* The poll_seconds a configuration file may hold: load_cfg returns what the
\* file holds, and line 78 takes it as it is.
ConfigSeconds == {3, ConfigDefault}

\* The seconds a /setinterval may carry: below the minimum, and above it.
SecondsAsked == {4, ConfigDefault}

\* /setinterval <seconds>
setinterval_cmd ==
    /\ Suspended
    /\ ready = "handled"
    /\ \E seconds \in SecondsAsked :
          IF seconds < MinSeconds
          THEN UNCHANGED <<poll_seconds, cfg, loop_seconds>>
          ELSE /\ poll_seconds' = seconds
               /\ cfg' = [cfg EXCEPT !.poll_seconds = seconds]
               /\ loop_seconds' = poll_seconds'
    /\ UNCHANGED <<pc, ready, _session, _channel, _last_seen, watch_names,
                   state_file, diskOk, locals, cyc, status, probe>>

InitInterval ==
    /\ \E seconds \in ConfigSeconds : Constructed(seconds)
    /\ probe = NoProbe

NextInterval ==
    \/ Next
    \/ setinterval_cmd

SpecInterval == InitInterval /\ [][NextInterval]_vars

\* ------------------------------------------------------- /status (83-92)
\* What the poller and the other commands leave alone, but for status.
quiet == <<poll_seconds, loop_seconds, probe>>

\* 85-87: the command defers its answer and awaits fetch_servers.
status_cmd ==
    /\ Suspended
    /\ ready = "handled"
    /\ status.at # "fetching"
    /\ status' = [NoStatus EXCEPT !.at = "fetching"]
    /\ UNCHANGED <<pc, ready, bot, state_file, diskOk, locals, cyc, quiet>>

\* 87-90: the fetch returned `list`: the answer is the list as fetched,
\* filtered by watch_names, or "No servers found.".
StatusFetchOk ==
    /\ Suspended
    /\ status.at = "fetching"
    /\ \E list \in FetchLists :
          LET kept == Filtered(list, watch_names)
          IN  status' = [at |-> "answered", failed |-> FALSE,
                         text |-> IF kept = <<>> THEN "No servers found."
                                  ELSE "Current Servers",
                         shown |-> Range(kept), stale |-> FALSE]
    /\ UNCHANGED <<pc, ready, bot, state_file, diskOk, locals, cyc, quiet>>

\* 91-92: the fetch raised: the answer is f"Error: {e}".
StatusFetchFail ==
    /\ Suspended
    /\ status.at = "fetching"
    /\ status' = [at |-> "answered", failed |-> TRUE, text |-> "Error",
                  shown |-> {}, stale |-> FALSE]
    /\ UNCHANGED <<pc, ready, bot, state_file, diskOk, locals, cyc, quiet>>

\* The bot while the poller's fetches fail: start-up, the cycles that abort
\* on the fetch, /watch and /status.
NextStatus ==
    \/ setup_hook
    \/ GatewayReady
    \/ on_ready
    \/ before_poller
    \/ Tick
    \/ FetchFail
    \/ LoopEnd
    \/ watch_cmd
    \/ status_cmd
    \/ StatusFetchOk
    \/ StatusFetchFail

SpecStatus == Init /\ [][NextStatus]_vars

\* ------------------------------------------- functions applied on their own
\* Everything but probe.
program == <<pc, ready, bot, state_file, diskOk, locals, cyc, poll_seconds,
             loop_seconds, status>>

\* 186-188: what a cycle tracks of `list` under `filter`: the key set of
\* line 188, or nothing when _key raises on a record the filter kept.
Tracked(list, filter) ==
    LET kept == Filtered(list, filter)
    IN  IF \E i \in DOMAIN kept : KeyRaises(kept[i])
        THEN [raised |-> TRUE, keys |-> {}]
        ELSE [raised |-> FALSE, keys |-> CurrentKeys(kept)]

\* A fetched list and two filters, the first within the second.
InitFilter ==
    /\ Constructed(ConfigDefault)
    /\ \E list \in FetchLists, G \in SUBSET Names :
          \E F \in SUBSET G :
              probe = [op |-> "filter", list |-> list, F |-> F, G |-> G,
                       done |-> FALSE,
                       underF |-> Tracked(<<>>, {}),
                       underG |-> Tracked(<<>>, {})]

\* Lines 186-188 run on the list under each of the two filters.
ApplyFilter ==
    /\ probe.op = "filter"
    /\ ~probe.done
    /\ probe' = [probe EXCEPT !.done = TRUE,
                              !.underF = Tracked(probe.list, probe.F),
                              !.underG = Tracked(probe.list, probe.G)]
    /\ UNCHANGED program

NextFilter == ApplyFilter

SpecFilter == InitFilter /\ [][NextFilter]_vars

\* 36-48: save_state and load_state on their own.
\* The keys _key builds from the records of the model, and the snapshots.
Keys == { _key(r) : r \in { x \in Records : ~KeyRaises(x) } }

Snapshots == SUBSET Keys

\* The state files save_state may find: none, an empty or unreadable one, or
\* a snapshot saved before.
FilesBefore ==
    {AbsentFile, EmptyFile, CorruptFile}
        \cup { JsonFile(sorted(T)) : T \in Snapshots }

\* A snapshot to save and the file as it is.
InitRoundTrip ==
    /\ Constructed(ConfigDefault)
    /\ \E S \in Snapshots, file \in FilesBefore :
          probe = [op |-> "round trip", S |-> S, file |-> file,
                   step |-> "start", loaded |-> {}]

\* save_state(S), the write working.
SaveState ==
    /\ probe.op = "round trip"
    /\ probe.step = "start"
    /\ \E f \in save_state(probe.S, probe.file, TRUE) :
          probe' = [probe EXCEPT !.file = f, !.step = "saved"]
    /\ UNCHANGED program

\* load_state()
LoadState ==
    /\ probe.op = "round trip"
    /\ probe.step = "saved"
    /\ probe' = [probe EXCEPT !.loaded = load_state(probe.file),
                              !.step = "loaded"]
    /\ UNCHANGED program

NextRoundTrip ==
    \/ SaveState
    \/ LoadState

SpecRoundTrip == InitRoundTrip /\ [][NextRoundTrip]_vars

\* ================================================================ properties
Over == pc \in {"returned", "raised"}

NoCycleInFlight == pc \in {"constructed", "before_loop", "idle", "dead"}

Delta == ups \cup downs

EmittedKeys(kind) ==
    { cyc.emitted[i].key : i \in { j \in DOMAIN cyc.emitted :
                                      cyc.emitted[j].kind = kind } }

Count(kind, key) ==
    Cardinality({ i \in DOMAIN cyc.emitted :
                    cyc.emitted[i].kind = kind /\ cyc.emitted[i].key = key })

\* C1: once a cycle has computed its diff from the snapshot P = previous and
\* the key set C = current, appeared is C \ P and disappeared is P \ C, the
\* two are disjoint, and both are empty when C = P.
C1_DiffIsSetDifference ==
    cyc.diffed =>
        /\ ups = current \ cyc.previous
        /\ downs = cyc.previous \ current
        /\ ups \cap downs = {}
        /\ (current = cyc.previous => ups = {} /\ downs = {})

C1_Witness == cyc.diffed /\ ups # {} /\ downs # {} /\ current \cap cyc.previous # {}

\* C2: the step in which the fetch fails leaves the in-memory snapshot and
\* the state file as they were, computes no diff and emits nothing, and the
\* cycle is over: nothing changes them before the loop takes over.
C2_FetchFailureChangesNothing ==
    [][ /\ (pc = "fetching" /\ cyc'.result = "fetch_error") =>
              /\ pc' = "returned"
              /\ _last_seen' = _last_seen
              /\ state_file' = state_file
              /\ ~cyc'.diffed
              /\ cyc'.wrote = "no"
              /\ cyc'.emitted = <<>>
        /\ (pc = "returned" /\ cyc.result = "fetch_error") =>
              /\ pc' \in {"returned", "idle"}
              /\ _last_seen' = _last_seen
              /\ state_file' = state_file
              /\ cyc'.emitted \in {cyc.emitted, <<>>} ]_vars

C2_Witness ==
    /\ pc = "returned"
    /\ cyc.result = "fetch_error"
    /\ _last_seen # {}
    /\ cyc.emitted = <<>>

\* C3 (as claimed): when the body of a cycle that computed a diff is over,
\* by a return or by an exception, every key of its delta has been emitted
\* exactly once.
C3_DeltaEmittedExactlyOnce ==
    (Over /\ cyc.diffed) =>
        /\ \A k \in ups : Count("UP", k) = 1
        /\ \A k \in downs : Count("DOWN", k) = 1
        /\ Len(cyc.emitted) = Cardinality(ups) + Cardinality(downs)

NothingDone == cyc.emitted = <<>> /\ cyc.wrote = "no"

\* C4 (as claimed): a cycle with an empty delta emits nothing and writes
\* nothing, and so does a cycle whose fetch returned the records the last
\* cycle's fetch returned.
C4_SameFetchDoesNothing ==
    /\ (cyc.diffed /\ Delta = {}) => NothingDone
    /\ cyc.sameFetch => NothingDone

\* C4 (amended): a cycle with an empty delta emits nothing and writes
\* nothing, and a cycle that builds the current key set the last cycle
\* built (the same fetched set under the same filter) has an empty delta.
C4_SameKeySetDoesNothing ==
    /\ (cyc.diffed /\ Delta = {}) => NothingDone
    /\ cyc.sameCurrent => (Delta = {} /\ NothingDone /\ ~cyc.replaced)

C4_Witness ==
    /\ pc = "returned"
    /\ cyc.sameCurrent
    /\ cyc.sameFetch
    /\ current # {}
    /\ cyc.result = "completed"

InFilter(keys) == \A k \in keys : k[1] \in watch_names

\* C5 (as claimed): while the filter is not empty, the in-memory snapshot,
\* the persisted snapshot and the appeared and disappeared sets, computed
\* or emitted, hold no key whose name is outside the filter.
C5_NothingOutsideFilter ==
    watch_names # {} =>
        /\ InFilter(_last_seen)
        /\ InFilter(load_state(state_file))
        /\ InFilter(ups \cup downs)
        /\ InFilter(EmittedKeys("UP") \cup EmittedKeys("DOWN"))
\* The state file changes only in the save_state step of a cycle that has
\* computed its diff.
OnlyTheCycleWrites ==
    [][state_file' # state_file => (pc = "save" /\ cyc.diffed)]_vars

\* C6: in a cycle with a non-empty delta the file is written first, then
\* the in-memory snapshot is replaced, then the events are emitted: the
\* write is attempted before anything else, the snapshot is replaced only
\* after it and before any event, and a cycle that returns has done all three.
C6_PersistReplaceNotify ==
    /\ []((pc = "returned" /\ cyc.diffed /\ Delta # {}) =>
              /\ cyc.wrote # "no"
              /\ cyc.replaced
              /\ Len(cyc.emitted) = Cardinality(Delta))
    /\ [][ /\ (cyc.wrote = "no" /\ cyc'.wrote # "no") =>
                 (cyc.diffed /\ ~cyc.replaced /\ cyc.emitted = <<>>)
           /\ (~cyc.replaced /\ cyc'.replaced) =>
                 (cyc.wrote # "no" /\ cyc.emitted = <<>>)
           /\ _last_seen' # _last_seen => (cyc.wrote # "no" /\ cyc'.replaced)
           /\ (Len(cyc'.emitted) > Len(cyc.emitted) /\ Delta # {}) =>
                 (cyc.wrote # "no" /\ cyc.replaced) ]_vars

C6_Witness ==
    /\ pc = "sending"
    /\ cyc.wrote = "ok"
    /\ cyc.replaced
    /\ Len(cyc.emitted) >= 1
    /\ state_file = JsonFile(sorted(current))
    /\ _last_seen = current

\* The lexicographic order of (name, address, port).
Lex(a, b) ==
    \/ StrLess(a[1], b[1])
    \/ a[1] = b[1] /\ StrLess(a[2], b[2])
    \/ a[1] = b[1] /\ a[2] = b[2] /\ a[3] < b[3]

\* C7: among the events a cycle has emitted, no DOWN precedes an UP, and two
\* events of the same kind are in ascending order of (name, address, port);
\* this for every list the fetch may return, in every order.
C7_UpsBeforeDownsSorted ==
    \A i, j \in DOMAIN cyc.emitted :
        i < j =>
            /\ cyc.emitted[i].kind = "DOWN" => cyc.emitted[j].kind = "DOWN"
            /\ cyc.emitted[i].kind = cyc.emitted[j].kind =>
                   Lex(cyc.emitted[i].key, cyc.emitted[j].key)

C7_Witness ==
    /\ Len(cyc.emitted) = 3
    /\ cyc.emitted[1].kind = "UP"
    /\ cyc.emitted[2].kind = "UP"
    /\ cyc.emitted[3].kind = "DOWN"

\* C8 (as claimed): whenever no cycle is in flight the snapshot loaded from
\* the state file is the in-memory snapshot, and only a cycle that has
\* computed its diff writes the file.
C8_FileEqualsMemory ==
    /\ [](NoCycleInFlight => load_state(state_file) = _last_seen)
    /\ OnlyTheCycleWrites

\* C8 (amended): whenever no cycle is in flight and the last save_state of
\* the run, if any, did not fail, the snapshot loaded from the state file is
\* the in-memory snapshot; and only a cycle that has computed its diff
\* writes the file.
C8_FileEqualsMemoryUnlessWriteFailed ==
    /\ []((NoCycleInFlight /\ ~cyc.unsaved) =>
              load_state(state_file) = _last_seen)
    /\ OnlyTheCycleWrites

C8_Witness ==
    /\ pc = "idle"
    /\ ~cyc.unsaved
    /\ cyc.polled
    /\ state_file.kind = "json"
    /\ Len(state_file.data) = 2
    /\ load_state(state_file) = _last_seen

\* C9 (as claimed): a cycle whose write fails still replaces the in-memory
\* snapshot and, when it returns, has emitted its events; and a cycle whose
\* fetch succeeded while writes worked ends with the state file holding the
\* in-memory snapshot.
C9_FileHealsOnNextCycle ==
    /\ (cyc.wrote = "failed" /\ pc \in {"notify", "sending", "returned"}) =>
           (cyc.replaced /\ _last_seen = current)
    /\ (cyc.wrote = "failed" /\ pc = "returned") =>
           Len(cyc.emitted) = Cardinality(Delta)
    /\ (pc = "returned" /\ cyc.diffed /\ cyc.disk /\ cyc.wrote # "failed") =>
           load_state(state_file) = _last_seen

\* C10 (as claimed): every cycle whose fetch returned a list computes its
\* diff, whatever the records of the list: no record makes key resolution
\* raise.
C10_NoRecordAbortsTheCycle ==
    (Over /\ cyc.result # "fetch_error" /\ _session) => cyc.diffed

\* C11 (as claimed): when the process dies inside save_state, the state file
\* is left as it was or holds the complete new snapshot, so that load_state
\* returns the previous snapshot or the new one.
C11_KilledSaveLeavesOldOrNew ==
    [][(pc = "save" /\ pc' = "killed") =>
           /\ state_file' \in {state_file, JsonFile(sorted(current))}
           /\ load_state(state_file') \in {load_state(state_file), current}]_vars

FirstCycleDiffsAgainstTheFile ==
    /\ (cyc.restarted /\ cyc.wrote = "no" /\ ~cyc.replaced) =>
           _last_seen = load_state(state_file)
    /\ (cyc.restarted /\ cyc.diffed) =>
           /\ ups = current \ cyc.previous
           /\ downs = cyc.previous \ current
           /\ cyc.wrote = "no" => cyc.previous = load_state(state_file)
    /\ (cyc.restarted /\ cyc.diffed /\ pc = "returned") =>
           /\ EmittedKeys("UP") = ups
           /\ EmittedKeys("DOWN") = downs
           /\ Len(cyc.emitted) = Cardinality(ups) + Cardinality(downs)

C14_StatusShowsLastKnownWhenFetchFails ==
    (status.at = "answered" /\ status.failed) =>
        /\ status.text # "Error"
        /\ status.stale
        /\ status.shown = _last_seen

\* C15 (as claimed): once the loop is armed its interval is at least 5
\* seconds, and so are self.poll_seconds and the configured value; and no
\* step installs a value below 5 in any of the three.
C15_IntervalAtLeastFive ==
    /\ [](pc # "constructed" =>
              /\ loop_seconds >= MinSeconds
              /\ poll_seconds >= MinSeconds
              /\ cfg.poll_seconds >= MinSeconds)
    /\ [][ /\ loop_seconds' # loop_seconds => loop_seconds' >= MinSeconds
           /\ poll_seconds' # poll_seconds => poll_seconds' >= MinSeconds
           /\ cfg'.poll_seconds # cfg.poll_seconds =>
                  cfg'.poll_seconds >= MinSeconds ]_vars

InFlight == pc \in {"fetching", "save", "replace", "notify", "sending"}

\* C16: a cycle starts only when none is in flight: the poller enters its
\* fetch from idle only, no step starts a cycle while one is running, and a
\* /setinterval that changes the interval during a cycle leaves the cycle
\* where it stands and starts none.
C16_OneCycleAtATime ==
    [][ /\ (pc' = "fetching" /\ pc # "fetching") => pc = "idle"
        /\ (cyc'.result = "running" /\ cyc.result # "running") =>
               (pc = "idle" /\ pc' = "fetching")
        /\ InFlight => cyc'.interval = cyc.interval
        /\ (InFlight /\ loop_seconds' # loop_seconds) =>
               /\ pc' = pc
               /\ cyc' = cyc
               /\ <<current, ups, downs, phase, todo, target>>' =
                      <<current, ups, downs, phase, todo, target>> ]_vars

C16_Witness ==
    /\ pc = "sending"
    /\ cyc.interval # loop_seconds
    /\ Len(cyc.emitted) >= 1

\* C17: a cycle that aborted on its fetch is always followed by another
\* fetch attempt, whatever number of cycles failed before it, and the step
\* that ends such a cycle never stops the loop.
C17_FetchFailureIsFollowedByAFetch ==
    /\ (pc = "returned" /\ cyc.result = "fetch_error")
           ~> (pc = "idle" /\ cyc.afterFailure)
    /\ (pc = "idle" /\ cyc.afterFailure)
           ~> (pc = "fetching" /\ cyc.afterFailure)
    /\ [][cyc.result = "fetch_error" => pc' # "dead"]_vars

C17_Witness ==
    /\ pc = "fetching"
    /\ cyc.afterFailure
    /\ cyc.result = "running"
    /\ cyc.polled

\* C18: while the session has not signalled readiness the poller is not
\* started or waits in before_poller, and no cycle has fetched, computed a
\* diff, written the state file or emitted an event: setup_hook arms the
\* loop and nothing more.
C18_NoCycleBeforeReady ==
    ready = "no" =>
        /\ pc \in {"constructed", "before_loop"}
        /\ cyc = NewCycle
        /\ current = {} /\ ups = {} /\ downs = {}
        /\ todo = <<>>
        /\ _last_seen = load_state(state_file)

C18_Witness ==
    /\ ready = "no"
    /\ pc = "before_loop"
    /\ _session
    /\ loop_seconds = poll_seconds
    /\ _last_seen # {}

SendErrors == {"HTTPException", "ClientError"}

\* C20 (as claimed): a cycle that has computed its diff and in which no send
\* has failed returns with every event of its delta emitted, whatever
\* /clearchannel and /usehere did while a send was awaited, and the step
\* that ends it leaves the loop running.
C20_BatchSurvivesChannelCommands ==
    [][(Over /\ cyc.diffed /\ cyc.exc \notin SendErrors) =>
           /\ pc = "returned"
           /\ EmittedKeys("UP") = ups
           /\ EmittedKeys("DOWN") = downs
           /\ Len(cyc.emitted) = Cardinality(ups) + Cardinality(downs)
           /\ pc' # "dead"]_vars
====
